---- MODULE Spec2Model ----
(***************************************************************************)
(* Walmart Order Exporter: the content script's export orchestrator        *)
(* (src/content/content.js).  One WalmartOrderExporter instance lives in   *)
(* the page; the chrome.runtime.onMessage listener starts exportOrders on  *)
(* START_EXPORT and calls stopExport on STOP_EXPORT.  exportOrders is an   *)
(* async function: it runs on the page's single JavaScript thread and      *)
(* gives the thread back only at an await.  `running` is the run that      *)
(* holds the thread (0 when the event loop is idle); message handlers and  *)
(* the completions of fetches and timers fire only when it is 0.           *)
(***************************************************************************)
EXTENDS Integers, Sequences, FiniteSets, TLC

\* ---------------------------------------------------------------- bounds
MaxRuns == 2        \* START_EXPORT messages delivered in one behaviour
MaxOrders == 3      \* orders in the account's history
MaxPerPage == 3     \* orders shown on one list page
MaxLen == 3         \* pieces of a string given to escapeCSV
MaxCsvOrders == 2   \* orders of this.orders when generateCSV is called
MaxLines == 3       \* line items, links or images of one order's source
MaxPages == 4       \* list pages a run visits
MaxExports == 2     \* clicks on the popup's Export button
MaxStops == 2       \* clicks on the popup's Stop button

Runs == 1..MaxRuns

\* ------------------------------------------------------- encoded JS values
All == 0 - 1        \* options.dateRange === 'all' (cutoffDate stays null)
NaN == 0 - 1        \* new Date(<text that is not a date>).getTime()
DateRangeDays == 30 \* the numeric dateRange of the popup, and exportOrders' default

\* ------------------------------------------------------------- order data
\* The account's order history is the list of order ids 1..n, newest first.
\* What the retailer shows for an order is the same on every page listing it.
TypeOf(id) == IF id % 2 = 1 THEN "store" ELSE "online"

DatePattern == <<"d10", "d40", "Unknown">>

DateOf(id, shift) == DatePattern[((id + shift) % 3) + 1]

\* new Date(orderDetails.orderDate), as days before the moment of the run:
\* "d10" is a date 10 days ago, "d40" one 40 days ago; any other text is an
\* Invalid Date, whose comparisons are all false.
ParseDate(s) == CASE s = "d10" -> 10
                  [] s = "d40" -> 40
                  [] OTHER     -> NaN

\* orderDate < cutoffDate, for cutoffDate = now - dateRange days
OlderThanCutoff(s, dateRange) ==
    /\ ParseDate(s) # NaN
    /\ ParseDate(s) > dateRange

\* formatDate(orderMeta.orderDate): a readable date string is returned as is
formatDate(dateValue) == IF dateValue = "" THEN "Unknown" ELSE dateValue

\* ------------------------------------------------------------ the document
\* A site: n orders, perPage of them on a list page; with `overlap` the last
\* order of a page shows again as the first of the next one (the list moved
\* while the run was paging); `layout` says whether the page has the
\* data-testid="order-N" containers or only plain links to the orders;
\* with `nested` every container is matched twice by the selector.
Stride(s) == IF s.overlap THEN s.perPage - 1 ELSE s.perPage

FirstOf(s, p) == (p - 1) * Stride(s) + 1

LastOf(s, p) == IF FirstOf(s, p) + s.perPage - 1 < s.n
                THEN FirstOf(s, p) + s.perPage - 1 ELSE s.n

\* the ids the list page p shows, in document order
PageIds(s, p) == [k \in 1..(LastOf(s, p) - FirstOf(s, p) + 1) |-> FirstOf(s, p) + k - 1]

Twice(ids) == [k \in 1..(2 * Len(ids)) |-> ids[(k + 1) \div 2]]

\* document.querySelectorAll('[data-testid]') filtered by /^order-\d+$/
Containers(s, p) ==
    IF s.layout # "containers" THEN <<>>
    ELSE IF s.nested THEN Twice(PageIds(s, p)) ELSE PageIds(s, p)

\* document.querySelectorAll('a[href*="/orders/"]')
OrderLinks(s, p) == IF s.nested THEN Twice(PageIds(s, p)) ELSE PageIds(s, p)

\* a variant of NextEnabled for a button that is disabled on the last page
\* of every site
NextEnabled_LastPageDisabled(s, p) == LastOf(s, p) < s.n

\* button[aria-label="Next page"] exists and is not disabled; on an
\* `endless` site the button stays enabled on and after the last page, and
\* the pages after the last one show no order
NextEnabled(s, p) == s.endless \/ LastOf(s, p) < s.n

\* the sites explored: a page size below MaxPerPage only where it gives a
\* second page; a history shown without containers is shorter than MaxOrders
Sites ==
    {s \in [n : 0..MaxOrders, perPage : 1..MaxPerPage, overlap : BOOLEAN,
            layout : {"containers", "links"}, nested : BOOLEAN, shift : 0..2,
            endless : BOOLEAN] :
        /\ s.endless => /\ s.n <= 1 /\ s.layout = "containers" /\ s.shift = 0
                        /\ ~s.nested /\ ~s.overlap
        /\ s.perPage < MaxPerPage => s.n > s.perPage
        /\ s.overlap => s.perPage > 1 /\ s.n > s.perPage
        /\ s.nested => s.n > 0 /\ s.shift = 0
        /\ s.layout = "links" => s.shift = 0 /\ ~s.nested /\ s.n < MaxOrders}

\* the sites of the behaviours with c > 1 START_EXPORT messages: the fewer
\* orders the more runs
RestartSites(c) ==
    {s \in Sites : /\ s.layout = "containers" /\ ~s.nested /\ s.shift = 0
                   /\ s.perPage = MaxPerPage /\ ~s.endless
                   /\ s.n > 0 /\ s.n + c <= 4}

SitesFor(c) == IF c = 1 THEN Sites ELSE RestartSites(c)

\* ------------------------------------------------------------ collectors
RECURSIVE DedupIds(_, _)
DedupIds(ids, seen) ==
    IF ids = <<>> THEN <<>>
    ELSE IF Head(ids) \in seen THEN DedupIds(Tail(ids), seen)
         ELSE <<Head(ids)>> \o DedupIds(Tail(ids), seen \cup {Head(ids)})

\* the number of thumbnails extractItemsFromOrderContainer finds for an order
ListItems(id) == id % 3

\* the 'Order total $...' text of a container, '' where there is none
ListTotal(id) == IF id % 2 = 0 THEN "$list" ELSE ""

\* the number of line items the order's own page shows
PageItems(id) == (id % 2) + 1

\* a record of the list page: items without prices, no subtotal, tax or
\* fees; the fees field stands for driverTip, associateDiscount, deliveryFee
\* and expressFee
ListOrder(s, id, r) ==
    [orderId |-> id, orderType |-> TypeOf(id), orderDate |-> DateOf(id, s.shift),
     items |-> ListItems(id), priced |-> FALSE, status |-> "listed",
     subtotal |-> "", tax |-> "", total |-> ListTotal(id), fees |-> "",
     error |-> FALSE, src |-> "list", run |-> r]

\* extractOrderDataFromListPage: one record per container, skipping an id
\* already in seenOrderIds; item prices are empty on the list page
extractOrderDataFromListPage(s, p, r) ==
    LET ids == DedupIds(Containers(s, p), {})
    IN  [k \in 1..Len(ids) |-> ListOrder(s, ids[k], r)]

\* getOrderIdsFromPage: {orderId, url, isStore} per distinct linked order id
getOrderIdsFromPage(s, p) ==
    LET ids == DedupIds(OrderLinks(s, p), {})
    IN  [k \in 1..Len(ids) |-> [orderId |-> ids[k], isStore |-> TypeOf(ids[k]) = "store"]]

HasId(s, id) == \E k \in 1..Len(s) : s[k].orderId = id

\* ---------------------------------------------------------------- state
VARIABLES
    site,            \* the retailer's order history, as the document shows it
    curPage,         \* the list page the document shows now
    isExporting,     \* this.isExporting
    orders,          \* this.orders, the accumulator
    processedOrders, \* this.processedOrders
    running,         \* the run executing on the JavaScript thread, 0 if none
    clicks,          \* START_EXPORT messages the popup sends in this behaviour
    starts,          \* START_EXPORT messages delivered so far
    run,             \* per call of exportOrders: its locals and its position
    obs,             \* per call of exportOrders: what it has done (history)
    pure,            \* a call of one of the pure functions: argument and result
    popup            \* the popup: its flag, its buttons and its handlers' positions

vars == <<site, clicks, curPage, isExporting, orders, processedOrders, running, starts, run,
          obs, pure, popup>>

\* no call of a pure function
NoCall == [fn |-> "none", arg |-> <<>>, done |-> FALSE, ret |-> <<>>]

\* PopupController as constructed: isExporting = false, the Export button
\* shown, no handler called
NoPopup ==
    [isExporting |-> FALSE, button |-> "export",
     startExport |-> [c \in 1..MaxExports |-> "idle"],
     stopExport |-> [c \in 1..MaxStops |-> "idle"]]

\* options of START_EXPORT, as getExportOptions builds them
Options ==
    [includeItems : BOOLEAN, fetchItemPrices : BOOLEAN, allPages : BOOLEAN,
     dateRange : {All, DateRangeDays}, orderTypeFilter : {"all", "online", "store"}]

\* the options the behaviours with more than one START_EXPORT choose from
RestartOptions ==
    {o \in Options : /\ o.includeItems /\ ~o.allPages /\ o.dateRange = All
                     /\ o.orderTypeFilter # "store"}

StartOptions(n) == IF n = 1 THEN Options ELSE RestartOptions

NoOptions ==
    [includeItems |-> TRUE, fetchItemPrices |-> FALSE, allPages |-> TRUE,
     dateRange |-> DateRangeDays, orderTypeFilter |-> "all"]

\* null, the result of a failed fetchDetailedItems
NullResult == [ok |-> FALSE, items |-> FALSE, orderDate |-> "", amounts |-> ""]

NoRun ==
    [pc |-> "idle", options |-> NoOptions, pageNum |-> 1, reachedCutoff |-> FALSE,
     pageOrders |-> <<>>, orderIds |-> <<>>, k |-> 1, i |-> 0, stage |-> "none",
     apiCalls |-> 0, apiData |-> "none", fetchResult |-> NullResult]

NoObs ==
    [progress |-> 0, fetchOrderDetails |-> 0, fetchDetailedItems |-> 0,
     navigations |-> 0, stopSeen |-> FALSE, stopped |-> FALSE,
     response |-> "none", csv |-> FALSE, orderCount |-> 0, download |-> FALSE,
     threw |-> FALSE, percent |-> [num |-> 0, den |-> 1], delays |-> 0, waits |-> 0]

\* constructor, and the document as loaded: the first list page
Init ==
    /\ clicks \in Runs
    /\ site \in SitesFor(clicks)
    /\ curPage = 1
    /\ isExporting = FALSE
    /\ orders = <<>>
    /\ processedOrders = 0
    /\ running = 0
    /\ starts = 0
    /\ run = [r \in Runs |-> NoRun]
    /\ obs = [r \in Runs |-> NoObs]
    /\ pure = NoCall
    /\ popup = NoPopup

Active(r) == run[r].pc \notin {"idle", "done"}

\* sendProgress: one EXPORT_PROGRESS message per call
Progress(r, n) == [obs EXCEPT ![r].progress = @ + n]

\* the percent of the event of the order loop, as the fraction num / den:
\* ((this.processedOrders + i) / Math.max(pageOrders.length * pageNum, 1)) * 100
Percent(r) ==
    [num |-> (processedOrders + run[r].i) * 100,
     den |-> IF Len(run[r].pageOrders) * run[r].pageNum > 1
             THEN Len(run[r].pageOrders) * run[r].pageNum ELSE 1]

\* a loop check that reads this.isExporting
Seen(o, r) == [o EXCEPT ![r].stopSeen = @ \/ ~isExporting]

\* ------------------------------------------------- the message listener
\* START_EXPORT: exporter.exportOrders(request.options), up to the while
StartExport(r, o) ==
    /\ running = 0
    /\ r = starts + 1
    /\ r <= clicks
    /\ o \in StartOptions(clicks)
    /\ starts' = r
    /\ isExporting' = TRUE
    /\ orders' = <<>>
    /\ processedOrders' = 0
    /\ run' = [run EXCEPT ![r] = [NoRun EXCEPT !.pc = "while", !.options = o]]
    /\ running' = r
    /\ UNCHANGED <<popup, pure, site, clicks, curPage, obs>>

\* STOP_EXPORT: exporter.stopExport(); sendResponse({success: true})
StopExport ==
    /\ running = 0
    /\ isExporting' = FALSE
    /\ obs' = [r \in Runs |-> [obs[r] EXCEPT !.stopped = @ \/ Active(r)]]
    /\ UNCHANGED <<popup, pure, site, clicks, curPage, orders, processedOrders, running, starts, run>>

\* ------------------------------------------------------ exportOrders
\* while (this.isExporting && !reachedCutoff): progress, then the page-level
\* collector; an empty result announces the fallback and lists the links
WhileCheck(r) ==
    /\ running = r
    /\ run[r].pc = "while"
    /\ IF isExporting /\ ~run[r].reachedCutoff
       THEN LET pageOrders == extractOrderDataFromListPage(site, curPage, r)
            IN  IF Len(pageOrders) = 0
                THEN /\ run' = [run EXCEPT ![r].pc = "fallback",
                                           ![r].pageOrders = <<>>,
                                           ![r].orderIds = getOrderIdsFromPage(site, curPage),
                                           ![r].k = 1]
                     /\ obs' = Progress(r, 2)
                ELSE /\ run' = [run EXCEPT ![r].pc = "process",
                                           ![r].pageOrders = pageOrders,
                                           ![r].i = 0]
                     /\ obs' = Progress(r, 1)
       ELSE /\ run' = [run EXCEPT ![r].pc = "finish"]
            /\ obs' = Seen(obs, r)
    /\ UNCHANGED <<popup, pure, site, clicks, curPage, isExporting, orders, processedOrders, running, starts>>

\* for (const orderInfo of orderIds): the stop check, progress, and the call
\* of fetchOrderDetails, which suspends the run at its first fetch; after the
\* loop, 'No orders found on this page' if nothing was fetched
Fallback(r) ==
    /\ running = r
    /\ run[r].pc = "fallback"
    /\ IF run[r].k <= Len(run[r].orderIds) /\ isExporting
       THEN /\ run' = [run EXCEPT ![r].pc = "fetchOrderDetails", ![r].stage = "api1",
                                   ![r].apiCalls = 1]
            /\ obs' = [Progress(r, 1) EXCEPT ![r].fetchOrderDetails = @ + 1]
            /\ running' = 0
       ELSE /\ run' = [run EXCEPT ![r].pc = "process", ![r].i = 0]
            /\ obs' = LET o == IF Len(run[r].pageOrders) = 0 THEN Progress(r, 1) ELSE obs
                      IN  IF run[r].k <= Len(run[r].orderIds) THEN Seen(o, r) ELSE o
            /\ running' = r
    /\ UNCHANGED <<popup, pure, site, clicks, curPage, isExporting, orders, processedOrders, starts>>

\* the record fetchOrderDetails returns for an order link
DetailOrder(s, info, r, how) ==
    [orderId   |-> info.orderId,
     orderType |-> CASE how = "api"  -> "online"
                     [] how = "html" -> IF info.isStore \/ TypeOf(info.orderId) = "store"
                                        THEN "store" ELSE "online"
                     [] OTHER        -> IF info.isStore THEN "store" ELSE "online",
     orderDate |-> IF how = "error" THEN "Unknown" ELSE DateOf(info.orderId, s.shift),
     items     |-> IF how = "error" THEN 0 ELSE PageItems(info.orderId),
     priced    |-> how # "error",
     status    |-> IF how = "error" THEN "Error fetching" ELSE "fetched",
     subtotal  |-> IF how = "error" THEN "" ELSE "$page",
     tax       |-> IF how = "error" THEN "" ELSE "$page",
     total     |-> IF how = "error" THEN "" ELSE "$page",
     fees      |-> "",
     error     |-> how = "error",
     src       |-> "detail",
     run       |-> r]

\* a variant of Fetched that drops the record of a failed fetch
Fetched_DropsFailed(r, details) ==
    [run EXCEPT ![r].pc = "fallbackDelay", ![r].stage = "none", ![r].apiCalls = 0,
                ![r].apiData = "none",
                ![r].pageOrders = IF details.error THEN @ ELSE Append(@, details)]

\* fetchOrderDetails returned: pageOrders.push(details), then delay(500)
Fetched(r, details) ==
    [run EXCEPT ![r].pc = "fallbackDelay", ![r].stage = "none", ![r].apiCalls = 0,
                ![r].apiData = "none",
                ![r].pageOrders = Append(@, details)]

\* a variant of NextStage that gives up the API at the first failure
NextStage_NoAlternatives(stage) == "html"

\* fetchOrderFromAPI after a failed request: the next of the two
\* alternativeUrls, and after the last one `return null` and the HTML page
NextStage(stage) == CASE stage = "api1" -> "api2"
                      [] stage = "api2" -> "api3"
                      [] OTHER          -> "html"

\* fetchOrderFromAPI: the response of one of the three JSON endpoints: data
\* with orderDetails, lineItems or items; a response that is ok without
\* them, which is returned and sends fetchOrderDetails to the HTML page;
\* or a failure or non-ok status, after which the next endpoint is fetched
\* (apiCalls counts the endpoints requested for the order, apiData is what
\* fetchOrderDetails got when it turns to the HTML page)
ApiResponse(r, out) ==
    /\ running = 0
    /\ run[r].pc = "fetchOrderDetails"
    /\ run[r].stage \in {"api1", "api2", "api3"}
    /\ run' = CASE out = "usable" ->
                     Fetched(r, DetailOrder(site, run[r].orderIds[run[r].k], r, "api"))
                [] out = "unusable" -> [run EXCEPT ![r].stage = "html",
                                                   ![r].apiData = "unusable"]
                [] OTHER -> [run EXCEPT ![r].stage = NextStage(run[r].stage),
                                        ![r].apiCalls =
                                            IF NextStage(run[r].stage) = "html" THEN @ ELSE @ + 1,
                                        ![r].apiData =
                                            IF NextStage(run[r].stage) = "html" THEN "null" ELSE @]
    /\ UNCHANGED <<popup, pure, site, clicks, curPage, isExporting, orders, processedOrders, running, starts, obs>>

\* fetchOrderDetails: the response of the order's HTML page; a failed
\* fetch or parse ends in the catch, which returns the error record (the
\* stage keeps the outcome while the loop waits)
HtmlResponse(r, out) ==
    /\ running = 0
    /\ run[r].pc = "fetchOrderDetails"
    /\ run[r].stage = "html"
    /\ run' = [Fetched(r, DetailOrder(site, run[r].orderIds[run[r].k], r,
                                      IF out = "ok" THEN "html" ELSE "error"))
                 EXCEPT ![r].stage = out]
    /\ UNCHANGED <<popup, pure, site, clicks, curPage, isExporting, orders, processedOrders, running, starts, obs>>

\* delay(500) of the fallback loop is over: next order link
FallbackDelay(r) ==
    /\ running = 0
    /\ run[r].pc = "fallbackDelay"
    /\ run' = [run EXCEPT ![r].pc = "fallback", ![r].k = @ + 1, ![r].stage = "none"]
    /\ obs' = [obs EXCEPT ![r].delays = @ + 1]
    /\ running' = r
    /\ UNCHANGED <<popup, pure, site, clicks, curPage, isExporting, orders, processedOrders, starts>>

\* a variant of ProcessNext without `if (!this.isExporting) break`
ProcessNext_NoStopCheck(r) == run[r].i < Len(run[r].pageOrders)

\* a variant of ProcessNext that leaves the page once reachedCutoff is set
ProcessNext_CutoffBreaks(r) ==
    run[r].i < Len(run[r].pageOrders) /\ isExporting /\ ~run[r].reachedCutoff

\* i < pageOrders.length, and the loop body's `if (!this.isExporting) break`
ProcessNext(r) == run[r].i < Len(run[r].pageOrders) /\ isExporting

\* a variant of WantsPrices that does not look at fetchItemPrices
WantsPrices_Always(options) == options.includeItems

\* if (fetchItemPrices && includeItems)
WantsPrices(options) == options.fetchItemPrices /\ options.includeItems

\* for (let i = 0; i < pageOrders.length; i++): the stop check, the progress
\* event, and with fetchItemPrices && includeItems a second progress event
\* and the call of fetchDetailedItems, which suspends the run
Process(r) ==
    /\ running = r
    /\ run[r].pc = "process"
    /\ IF ProcessNext(r)
       THEN IF WantsPrices(run[r].options)
            THEN /\ run' = [run EXCEPT ![r].pc = "fetchDetailedItems"]
                 /\ obs' = [Progress(r, 2) EXCEPT ![r].fetchDetailedItems = @ + 1,
                                                  ![r].percent = Percent(r)]
                 /\ running' = 0
            ELSE /\ run' = [run EXCEPT ![r].pc = "filter"]
                 /\ obs' = [Progress(r, 1) EXCEPT ![r].percent = Percent(r)]
                 /\ running' = r
       ELSE /\ run' = [run EXCEPT ![r].pc = "pageEnd"]
            /\ obs' = IF run[r].i < Len(run[r].pageOrders) THEN Seen(obs, r) ELSE obs
            /\ running' = r
    /\ UNCHANGED <<popup, pure, site, clicks, curPage, isExporting, orders, processedOrders, starts>>

\* what fetchDetailedItems can return: null, or {items, orderMeta}, where
\* orderMeta is empty or carries the date and the amounts of the order page
\* (a page that gives the amounts gives the line items too)
DetailResults ==
    {NullResult}
        \cup {f \in [ok : {TRUE}, items : BOOLEAN, orderDate : {"", "d40"},
                     amounts : {"", "$meta"}] :
                 /\ (f.orderDate = "") = (f.amounts = "")
                 /\ f.amounts # "" => f.items}

\* a variant of Enrich that resets the order whatever the result is
Enrich_NullClears(orderDetails, fetchResult) ==
    [orderDetails EXCEPT !.items = 0, !.orderDate = "Unknown", !.total = ""]

\* if (fetchResult) { ... }: detailed items replace the list items when there
\* are any; orderMeta fills in a date that is 'Unknown' and a subtotal, tax
\* or total that is empty, and overwrites the fees
Enrich(orderDetails, fetchResult) ==
    IF ~fetchResult.ok THEN orderDetails
    ELSE [orderDetails EXCEPT
            !.items = IF fetchResult.items THEN PageItems(orderDetails.orderId) ELSE @,
            !.priced = IF fetchResult.items THEN TRUE ELSE @,
            !.orderDate = IF fetchResult.orderDate # "" /\ @ = "Unknown"
                          THEN formatDate(fetchResult.orderDate) ELSE @,
            !.subtotal = IF fetchResult.amounts # "" /\ @ = ""
                         THEN fetchResult.amounts ELSE @,
            !.tax = IF fetchResult.amounts # "" /\ @ = ""
                    THEN fetchResult.amounts ELSE @,
            !.total = IF fetchResult.amounts # "" /\ @ = ""
                      THEN fetchResult.amounts ELSE @,
            !.fees = IF fetchResult.amounts # "" THEN fetchResult.amounts ELSE @]

\* a variant of DetailedItemsResponse that goes on without the delay(500)
DetailedItemsResponse_NoDelay(r, fetchResult) ==
    /\ running = 0
    /\ run[r].pc = "fetchDetailedItems"
    /\ run' = [run EXCEPT ![r].pc = "filter",
                          ![r].pageOrders[run[r].i + 1] = Enrich(@, fetchResult)]
    /\ running' = r
    /\ UNCHANGED <<popup, pure, site, clicks, curPage, isExporting, orders, processedOrders, starts, obs>>

\* fetchDetailedItems returned; the run then waits delay(500)
DetailedItemsResponse(r, fetchResult) ==
    /\ running = 0
    /\ run[r].pc = "fetchDetailedItems"
    /\ run' = [run EXCEPT ![r].pc = "detailDelay",
                          ![r].fetchResult = fetchResult,
                          ![r].pageOrders[run[r].i + 1] = Enrich(@, fetchResult)]
    /\ UNCHANGED <<popup, pure, site, clicks, curPage, isExporting, orders, processedOrders, running, starts, obs>>

\* delay(500) after fetchDetailedItems is over: the filters come next
DetailDelay(r) ==
    /\ running = 0
    /\ run[r].pc = "detailDelay"
    /\ run' = [run EXCEPT ![r].pc = "filter", ![r].fetchResult = NullResult]
    /\ obs' = [obs EXCEPT ![r].delays = @ + 1]
    /\ running' = r
    /\ UNCHANGED <<popup, pure, site, clicks, curPage, isExporting, orders, processedOrders, starts>>

\* the date cutoff: cutoffDate && orderDate !== 'Unknown' && orderDate < cutoffDate
TooOld(orderDetails, options) ==
    /\ options.dateRange # All
    /\ orderDetails.orderDate # "Unknown"
    /\ OlderThanCutoff(orderDetails.orderDate, options.dateRange)

\* the order type filter
WrongType(orderDetails, options) ==
    \/ options.orderTypeFilter = "online" /\ orderDetails.orderType = "store"
    \/ options.orderTypeFilter = "store" /\ orderDetails.orderType # "store"

IncludeOrder(orderDetails, options) ==
    ~TooOld(orderDetails, options) /\ ~WrongType(orderDetails, options)

\* the rest of the loop body: the filters, this.orders.push, processedOrders++
Filter(r) ==
    /\ running = r
    /\ run[r].pc = "filter"
    /\ LET orderDetails == run[r].pageOrders[run[r].i + 1]
       IN  /\ run' = [run EXCEPT ![r].pc = "process",
                                 ![r].i = @ + 1,
                                 ![r].reachedCutoff = @ \/ TooOld(orderDetails, run[r].options)]
           /\ orders' = IF IncludeOrder(orderDetails, run[r].options)
                        THEN Append(orders, orderDetails) ELSE orders
    /\ processedOrders' = processedOrders + 1
    /\ UNCHANGED <<popup, pure, site, clicks, curPage, isExporting, running, starts, obs>>

\* a variant of MayAdvance that goes on after an order older than the cutoff
MayAdvance_PastCutoff(r) ==
    run[r].options.allPages /\ NextEnabled(site, curPage) /\ isExporting

\* a variant of MayAdvance that goes on when allPages is off
MayAdvance_AnyPages(r) ==
    ~run[r].reachedCutoff /\ NextEnabled(site, curPage) /\ isExporting

\* allPages && !reachedCutoff && this.hasNextPage() && this.isExporting
MayAdvance(r) ==
    /\ run[r].options.allPages
    /\ ~run[r].reachedCutoff
    /\ NextEnabled(site, curPage)
    /\ isExporting

\* the check for the next page: progress and goToNextPage (the click), which
\* suspends the run in waitForPageUpdate; otherwise break (the code has no
\* bound on the pages; the behaviours explored end at page MaxPages)
PageEnd(r) ==
    /\ running = r
    /\ run[r].pc = "pageEnd"
    /\ MayAdvance(r) => curPage < MaxPages
    /\ IF MayAdvance(r)
       THEN /\ run' = [run EXCEPT ![r].pc = "waitForPageUpdate"]
            /\ obs' = [Progress(r, 1) EXCEPT ![r].navigations = @ + 1]
            /\ curPage' = curPage + 1
            /\ running' = 0
       ELSE /\ run' = [run EXCEPT ![r].pc = "finish"]
            /\ obs' = IF run[r].options.allPages /\ ~run[r].reachedCutoff
                         /\ NextEnabled(site, curPage)
                      THEN Seen(obs, r) ELSE obs
            /\ curPage' = curPage
            /\ running' = r
    /\ UNCHANGED <<popup, pure, site, clicks, isExporting, orders, processedOrders, starts>>

\* waitForPageUpdate is over: pageNum++, then delay(1000)
PageUpdated(r) ==
    /\ running = 0
    /\ run[r].pc = "waitForPageUpdate"
    /\ run' = [run EXCEPT ![r].pc = "pageDelay", ![r].pageNum = @ + 1]
    /\ obs' = [obs EXCEPT ![r].waits = @ + 1]
    /\ UNCHANGED <<popup, pure, site, clicks, curPage, isExporting, orders, processedOrders, running, starts>>

\* delay(1000) is over: back to the loop condition
PageDelay(r) ==
    /\ running = 0
    /\ run[r].pc = "pageDelay"
    /\ run' = [run EXCEPT ![r].pc = "while"]
    /\ obs' = [obs EXCEPT ![r].waits = @ + 1]
    /\ running' = r
    /\ UNCHANGED <<popup, pure, site, clicks, curPage, isExporting, orders, processedOrders, starts>>

\* a variant of Downloads that saves the file of every successful run
Downloads_Always(orderCount) == TRUE

\* the listener's .then on a successful result, whose csv always holds the
\* header row: if (result.success && result.csv && result.orderCount > 0)
Downloads(orderCount) == orderCount > 0

\* after the loop: the 'Generating CSV...' progress event, generateCSV, the
\* result, finally { this.isExporting = false }; then the listener's .then:
\* triggerDownload if result.orderCount > 0, and sendResponse(result)
Finish(r) ==
    /\ running = r
    /\ run[r].pc = "finish"
    /\ run' = [run EXCEPT ![r].pc = "done"]
    /\ obs' = [Progress(r, 1) EXCEPT ![r].response = "success",
                                     ![r].percent = [num |-> 100, den |-> 1],
                                     ![r].csv = TRUE,
                                     ![r].orderCount = Len(orders),
                                     ![r].download = Downloads(Len(orders))]
    /\ isExporting' = FALSE
    /\ running' = 0
    /\ UNCHANGED <<popup, pure, site, clicks, curPage, orders, processedOrders, starts>>

\* a variant of Failure that answers with what the run had accumulated
Failure_Partial(o, r) ==
    [o EXCEPT ![r].response = "success", ![r].csv = TRUE,
              ![r].orderCount = Len(orders), ![r].download = Len(orders) > 0]

\* catch (error): the result {success: false, error: error.message}, which
\* the listener's .then answers without a download
Failure(o, r) ==
    [o EXCEPT ![r].response = "failure", ![r].csv = FALSE,
              ![r].orderCount = 0, ![r].download = FALSE]

\* a synchronous step inside try throws (sendProgress on an invalidated
\* extension context, a DOM call): catch, finally, then the listener;
\* explored in the behaviours with one START_EXPORT
Throw(r) ==
    /\ clicks = 1
    /\ running = r
    /\ Active(r)
    /\ run' = [run EXCEPT ![r] = [NoRun EXCEPT !.pc = "done", !.options = run[r].options]]
    /\ obs' = Failure([obs EXCEPT ![r].threw = TRUE], r)
    /\ isExporting' = FALSE
    /\ running' = 0
    /\ UNCHANGED <<popup, pure, site, clicks, curPage, orders, processedOrders, starts>>

Next ==
    \/ \E r \in Runs, o \in Options : StartExport(r, o)
    \/ StopExport
    \/ \E r \in Runs : WhileCheck(r)
    \/ \E r \in Runs : Fallback(r)
    \/ \E r \in Runs, out \in {"usable", "unusable", "fail"} : ApiResponse(r, out)
    \/ \E r \in Runs, out \in {"ok", "fail"} : HtmlResponse(r, out)
    \/ \E r \in Runs : FallbackDelay(r)
    \/ \E r \in Runs : Process(r)
    \/ \E r \in Runs, res \in DetailResults : DetailedItemsResponse(r, res)
    \/ \E r \in Runs : DetailDelay(r)
    \/ \E r \in Runs : Filter(r)
    \/ \E r \in Runs : PageEnd(r)
    \/ \E r \in Runs : PageUpdated(r)
    \/ \E r \in Runs : PageDelay(r)
    \/ \E r \in Runs : Finish(r)
    \/ \E r \in Runs : Throw(r)

Spec == Init /\ [][Next]_vars

\* a step of run r other than a throwing one; its position enables at most
\* one of them
RunStep(r) ==
    \/ WhileCheck(r)
    \/ Fallback(r)
    \/ \E out \in {"usable", "unusable", "fail"} : ApiResponse(r, out)
    \/ \E out \in {"ok", "fail"} : HtmlResponse(r, out)
    \/ FallbackDelay(r)
    \/ Process(r)
    \/ \E res \in DetailResults : DetailedItemsResponse(r, res)
    \/ DetailDelay(r)
    \/ Filter(r)
    \/ PageEnd(r)
    \/ PageUpdated(r)
    \/ PageDelay(r)
    \/ Finish(r)

\* every step of a run is taken once it can be: the thread runs a resumed
\* run to its next await, and every fetch and every timer completes; the
\* messages of the popup and a throwing step may or may not come
Completes == \A r \in Runs : WF_vars(RunStep(r))

\* the sites of the behaviours checked for termination: up to two orders,
\* each shown once, with and without containers, on one or two pages or
\* with a button that stays enabled; one order where a second START_EXPORT
\* arrives
LiveSites(c) ==
    {s \in SitesFor(c) : /\ s.shift = 0 /\ ~s.nested /\ ~s.overlap
                         /\ s.n <= 2
                         /\ c > 1 => s.n = 1 /\ c = 2}

LiveInit ==
    /\ clicks \in Runs
    /\ site \in LiveSites(clicks)
    /\ curPage = 1
    /\ isExporting = FALSE
    /\ orders = <<>>
    /\ processedOrders = 0
    /\ running = 0
    /\ starts = 0
    /\ run = [r \in Runs |-> NoRun]
    /\ obs = [r \in Runs |-> NoObs]
    /\ pure = NoCall
    /\ popup = NoPopup

FairSpec == LiveInit /\ [][Next]_vars /\ Completes

\* ------------------------------------------------------ the pure functions
\* A JavaScript string is a sequence of pieces: a piece is one of the three
\* characters CSV treats specially, or a stretch of text without them.
Chars == {"a", ",", "\"", "\n"}

Strings == UNION {[1..k -> Chars] : k \in 0..MaxLen}

\* null or undefined (no text of the model uses this piece)
Undefined == <<"undefined">>

\* str.includes(c)
Includes(str, c) == \E k \in 1..Len(str) : str[k] = c

\* str.replace(/"/g, '""')
RECURSIVE DoubleQuotes(_)
DoubleQuotes(str) ==
    IF str = <<>> THEN <<>>
    ELSE (IF Head(str) = "\"" THEN <<"\"", "\"">> ELSE <<Head(str)>>)
             \o DoubleQuotes(Tail(str))

\* a variant of escapeCSV that wraps without doubling the quotes inside
escapeCSV_NoDoubling(value) ==
    IF value = Undefined THEN <<>>
    ELSE IF Includes(value, ",") \/ Includes(value, "\"") \/ Includes(value, "\n")
         THEN <<"\"">> \o value \o <<"\"">>
         ELSE value

escapeCSV(value) ==
    IF value = Undefined THEN <<>>
    ELSE IF Includes(value, ",") \/ Includes(value, "\"") \/ Includes(value, "\n")
         THEN <<"\"">> \o DoubleQuotes(value) \o <<"\"">>
         ELSE value

\* Array.prototype.join
RECURSIVE join(_, _)
join(parts, sep) ==
    IF parts = <<>> THEN <<>>
    ELSE IF Len(parts) = 1 THEN parts[1]
         ELSE parts[1] \o <<sep>> \o join(Tail(parts), sep)

\* a || b for strings: the empty string is falsy
OrElse(a, b) == IF a # <<>> /\ a # Undefined THEN a ELSE b

formatStoreLocation(storeLocation) ==
    join(SelectSeq(<<storeLocation.name, storeLocation.address>>,
                   LAMBDA part : part # <<>>), " - ")

DetailedHeader ==
    << <<"Order Number">>, <<"Order Date">>, <<"Status">>, <<"Item Name">>,
       <<"Item Price">>, <<"Quantity">>, <<"Subtotal">>, <<"Tax">>,
       <<"Order Total">>, <<"Order Type">>, <<"Associate Discount">>,
       <<"Driver Tip">>, <<"Delivery Fee">>, <<"Express Fee">>,
       <<"Store Location">> >>

SummaryHeader ==
    << <<"Order Number">>, <<"Order Date">>, <<"Status">>, <<"Item Count">>,
       <<"Subtotal">>, <<"Tax">>, <<"Order Total">>, <<"Order Type">>,
       <<"Associate Discount">>, <<"Driver Tip">>, <<"Delivery Fee">>,
       <<"Express Fee">>, <<"Store Location">> >>

\* the fields of a row before the item columns, and those after them
RowHead(order) ==
    << escapeCSV(OrElse(order.orderNumber, order.orderId)),
       escapeCSV(order.orderDate), escapeCSV(order.status) >>

RowTail(order) ==
    << escapeCSV(order.subtotal), escapeCSV(order.tax), escapeCSV(order.total),
       escapeCSV(IF order.orderType = "store" THEN <<"Store">> ELSE <<"Online">>),
       escapeCSV(OrElse(order.associateDiscount, <<>>)),
       escapeCSV(OrElse(order.driverTip, <<>>)),
       escapeCSV(OrElse(order.deliveryFee, <<>>)),
       escapeCSV(OrElse(order.expressFee, <<>>)),
       escapeCSV(formatStoreLocation(order.storeLocation)) >>

\* a variant of DetailedRows that writes no row for an order without items
DetailedRows_SkipsEmpty(order) ==
    [k \in 1..Len(order.items) |->
        join(RowHead(order)
             \o << escapeCSV(order.items[k].name), escapeCSV(order.items[k].price),
                   order.items[k].quantity >>
             \o RowTail(order), ",")]

\* the rows of one order in the detailed layout: one per item, with
\* item.quantity written as it is; 'No items found' if there is no item
DetailedRows(order) ==
    IF Len(order.items) > 0
    THEN [k \in 1..Len(order.items) |->
            join(RowHead(order)
                 \o << escapeCSV(order.items[k].name), escapeCSV(order.items[k].price),
                       order.items[k].quantity >>
                 \o RowTail(order), ",")]
    ELSE << join(RowHead(order) \o << <<"No items found">>, <<>>, <<>> >>
                 \o RowTail(order), ",") >>

\* the row of one order in the summary layout, with items.length
SummaryRows(order) ==
    << join(RowHead(order) \o << <<ToString(Len(order.items))>> >> \o RowTail(order), ",") >>

RECURSIVE DataRows(_, _)
DataRows(list, includeItems) ==
    IF list = <<>> THEN <<>>
    ELSE (IF includeItems THEN DetailedRows(Head(list)) ELSE SummaryRows(Head(list)))
             \o DataRows(Tail(list), includeItems)

\* generateCSV: the array `rows`, and the text rows.join('\n') it returns
generateCSV(list, includeItems) ==
    LET rows == << join(IF includeItems THEN DetailedHeader ELSE SummaryHeader, ",") >>
                    \o DataRows(list, includeItems)
    IN  [rows |-> rows, text |-> join(rows, "\n")]

\* the items an extractor can be given for one order; the third one has the
\* quantity "1,5" that JSON data can carry as a string
CsvItems ==
    << [name |-> <<"Milk">>, price |-> <<"$3.00">>, quantity |-> <<"1">>],
       [name |-> <<"Pan 10", "\"", ",", " steel">>, price |-> <<>>, quantity |-> <<"2">>],
       [name |-> <<"Eggs">>, price |-> <<"$2.00">>, quantity |-> <<"1", ",", "5">>] >>

ItemLists ==
    { <<>>, <<CsvItems[1]>>, <<CsvItems[2], CsvItems[1]>>, <<CsvItems[3]>> }

\* an accumulated order as the collectors build it
CsvOrder(id, items) ==
    [orderId |-> id, orderNumber |-> id,
     orderType |-> IF id = <<"101">> THEN "store" ELSE "online",
     orderDate |-> <<"Jan 5", ",", " 2026">>, status |-> <<"Delivered">>,
     items |-> items, subtotal |-> <<>>, tax |-> <<>>, total |-> <<"$45.67">>,
     associateDiscount |-> <<>>, driverTip |-> <<>>, deliveryFee |-> <<>>,
     expressFee |-> <<>>,
     storeLocation |-> IF id = <<"101">>
                       THEN [name |-> <<"Store 12">>, address |-> <<"1 Main St">>]
                       ELSE [name |-> <<>>, address |-> <<>>]]

CsvOrders == {CsvOrder(id, items) : id \in {<<"101">>, <<"102">>}, items \in ItemLists}

CsvOrderLists == UNION {[1..k -> CsvOrders] : k \in 0..MaxCsvOrders}

\* the texts an item source can carry: none, a product with and without
\* the ', quantity N' suffix of an image alt text, a totals line, and a
\* product name of fewer than 5 characters
Names ==
    {"", "Whole Milk 1 gallon", "Whole Milk 1 gallon, quantity 2", "Subtotal $5.00", "Eggs"}

\* the alt texts of the images of one order container
Sources == UNION {[1..k -> Names \cup {"Whole Milk 1 gallon, quantity 0"}] : k \in 0..MaxLines}

\* what a source says about an item's quantity: nothing, 0 or 2
NoQuantity == 0 - 1

Quantities == {NoQuantity, 0, 2}

\* a line item of structured data, or a product link or text line with the
\* quantity its surrounding text gives
Lines ==
    [name : Names \ {"Whole Milk 1 gallon, quantity 2"}, quantity : Quantities]

\* the line items, product links or text lines of one order
LineSources == UNION {[1..k -> Lines] : k \in 0..MaxLines}

\* let quantity = 1; if (qtyMatch) quantity = parseInt(qtyMatch[1])
QtyOrOne(q) == IF q = NoQuantity THEN 1 ELSE q

\* lineItem.quantity || 1: an absent quantity and 0 are both falsy
QuantityOrOne(q) == IF q = NoQuantity \/ q = 0 THEN 1 ELSE q

\* false for an empty name, a name shorter than 5 or longer than 200
\* characters, and a name a deny-list pattern (/^Subtotal/i, ...) matches
isValidProductName(name) == name \notin {"", "Eggs", "Subtotal $5.00"}

\* name.match(/,\s*quantity\s+(\d+)$/i), parseInt and the replace
StripQuantity(name) ==
    IF name = "Whole Milk 1 gallon, quantity 2"
    THEN [name |-> "Whole Milk 1 gallon", quantity |-> 2]
    ELSE IF name = "Whole Milk 1 gallon, quantity 0"
         THEN [name |-> "Whole Milk 1 gallon", quantity |-> 0]
         ELSE [name |-> name, quantity |-> 1]

\* images.forEach of extractItemsFromOrderContainer, with its `seen` set
RECURSIVE ContainerPass(_, _)
ContainerPass(alts, seen) ==
    IF alts = <<>> THEN <<>>
    ELSE LET item == StripQuantity(Head(alts))
         IN  IF Head(alts) # "" /\ item.name \notin seen /\ isValidProductName(item.name)
             THEN <<item>> \o ContainerPass(Tail(alts), seen \cup {item.name})
             ELSE ContainerPass(Tail(alts), seen)

extractItemsFromOrderContainer(alts) == ContainerPass(alts, {})

\* for (const lineItem of lineItems): if (!name || seen.has(name)) continue
RECURSIVE NextDataPass(_, _)
NextDataPass(lineItems, seen) ==
    IF lineItems = <<>> THEN <<>>
    ELSE LET lineItem == Head(lineItems)
         IN  IF lineItem.name = "" \/ lineItem.name \in seen
             THEN NextDataPass(Tail(lineItems), seen)
             ELSE <<[name |-> lineItem.name, quantity |-> QuantityOrOne(lineItem.quantity)]>>
                      \o NextDataPass(Tail(lineItems), seen \cup {lineItem.name})

extractItemsFromNextData(lineItems) == NextDataPass(lineItems, {})

\* one strategy of extractItemsFromDOM or extractItemsFromReceipt over the
\* nodes its selector matches: a valid name not yet in `seen` is added,
\* with the quantity of a 'Qty N' text where the strategy reads one
RECURSIVE NodePass(_, _, _)
NodePass(nodes, seen, readsQty) ==
    IF nodes = <<>> THEN <<>>
    ELSE LET node == Head(nodes)
         IN  IF node.name # "" /\ node.name \notin seen /\ isValidProductName(node.name)
             THEN <<[name |-> node.name,
                     quantity |-> IF readsQty THEN QtyOrOne(node.quantity) ELSE 1]>>
                      \o NodePass(Tail(nodes), seen \cup {node.name}, readsQty)
             ELSE NodePass(Tail(nodes), seen, readsQty)

\* the nodes of a document that a strategy's selector matches
Matched(doc, kind) == IF doc.kind = kind THEN doc.nodes ELSE <<>>

\* extractItemsFromDOM: product links, else other links, else text elements
extractItemsFromDOM(doc) ==
    LET byLink == NodePass(Matched(doc, "product"), {}, TRUE)
        byTestId == NodePass(Matched(doc, "testid"), {}, TRUE)
    IN  IF byLink # <<>> THEN byLink
        ELSE IF byTestId # <<>> THEN byTestId
             ELSE NodePass(Matched(doc, "text"), {}, FALSE)

\* extractItemsFromReceipt: product links, else the lines of the page text
extractItemsFromReceipt(doc) ==
    LET byLink == NodePass(Matched(doc, "product"), {}, TRUE)
    IN  IF byLink # <<>> THEN byLink ELSE NodePass(Matched(doc, "text"), {}, TRUE)

\* parseOrderFromJSONData: for (const item of lineItems) if (name) items.push
RECURSIVE parseOrderFromJSONData(_)
parseOrderFromJSONData(lineItems) ==
    IF lineItems = <<>> THEN <<>>
    ELSE (IF Head(lineItems).name # ""
          THEN <<[name |-> Head(lineItems).name,
                  quantity |-> QuantityOrOne(Head(lineItems).quantity)]>>
          ELSE <<>>)
             \o parseOrderFromJSONData(Tail(lineItems))

Docs == [kind : {"product", "testid", "text"}, nodes : LineSources]

\* what script#__NEXT_DATA__ of a detail page holds: no such script; text
\* that JSON.parse rejects; data without props.pageProps; pageProps with
\* the order under one of the possibleKeys; pageProps whose first
\* possibleKey (say initialState) holds an object that is not an order; and
\* pageProps with no possibleKey, no Apollo state and no mention of the id
NextDatas == {"absent", "unparseable", "noProps", "order", "other", "nothing"}

\* a detail page: its __NEXT_DATA__, whether another script holds a flat
\* object with "orderDetails" or "lineItems", the line items of the order
\* in the embedded JSON, and the product links of the markup
DetailPages ==
    [nextData : NextDatas, inlineJson : BOOLEAN,
     lineItems : {l \in LineSources : Len(l) <= 1},
     dom : {d \in Docs : d.kind = "product" /\ Len(d.nodes) <= 1}]

\* no object: null
NoJson == [found |-> FALSE, isOrder |-> FALSE]

\* parseNextJSData: null without pageProps; else the value under the first
\* possibleKey that is set, whatever it holds; else null
parseNextJSData(nextData) ==
    CASE nextData = "order" -> [found |-> TRUE, isOrder |-> TRUE]
      [] nextData = "other" -> [found |-> TRUE, isOrder |-> FALSE]
      [] OTHER              -> NoJson

\* extractOrderFromJSON: with a __NEXT_DATA__ that parses, whatever
\* parseNextJSData returns; otherwise the first script object with
\* orderDetails or lineItems; otherwise null
extractOrderFromJSON(page) ==
    IF page.nextData \notin {"absent", "unparseable"}
    THEN parseNextJSData(page.nextData)
    ELSE IF page.inlineJson THEN [found |-> TRUE, isOrder |-> TRUE] ELSE NoJson

\* parseOrderDetailPage: if (jsonData) return parseOrderFromJSONData(jsonData),
\* else the DOM path with extractItemsFromDOM (an object that is not an
\* order has no lineItems)
parseOrderDetailPage(page) ==
    LET jsonData == extractOrderFromJSON(page)
    IN  IF jsonData.found
        THEN [builtBy |-> "parseOrderFromJSONData",
              items |-> parseOrderFromJSONData(IF jsonData.isOrder THEN page.lineItems
                                               ELSE <<>>)]
        ELSE [builtBy |-> "DOM", items |-> extractItemsFromDOM(page.dom)]

\* the calls of the pure functions, each with the arguments it is given
PureCalls ==
    [fn : {"escapeCSV"}, arg : Strings \cup {Undefined}]
        \cup [fn : {"generateCSV"},
              arg : [list : CsvOrderLists, includeItems : BOOLEAN]]
        \cup [fn : {"extractItemsFromOrderContainer"}, arg : Sources]
        \cup [fn : {"extractItemsFromNextData", "parseOrderFromJSONData"},
              arg : LineSources]
        \cup [fn : {"extractItemsFromDOM"}, arg : Docs]
        \cup [fn : {"extractItemsFromReceipt"},
              arg : {d \in Docs : d.kind # "testid"}]
        \cup [fn : {"parseOrderDetailPage"}, arg : DetailPages]

\* the exporter as constructed, on an empty history, and one call to make
PureInit ==
    /\ clicks = 1
    /\ site = [n |-> 0, perPage |-> MaxPerPage, overlap |-> FALSE,
               layout |-> "containers", nested |-> FALSE, shift |-> 0, endless |-> FALSE]
    /\ curPage = 1
    /\ isExporting = FALSE
    /\ orders = <<>>
    /\ processedOrders = 0
    /\ running = 0
    /\ starts = 0
    /\ run = [r \in Runs |-> NoRun]
    /\ obs = [r \in Runs |-> NoObs]
    /\ pure \in {[fn |-> c.fn, arg |-> c.arg, done |-> FALSE, ret |-> <<>>] : c \in PureCalls}
    /\ popup = NoPopup

\* the call has returned ret
Returned(ret) == [pure EXCEPT !.done = TRUE, !.ret = ret]

EscapeCSV ==
    /\ pure.fn = "escapeCSV"
    /\ ~pure.done
    /\ pure' = Returned(escapeCSV(pure.arg))
    /\ UNCHANGED <<site, clicks, curPage, isExporting, orders, processedOrders, running,
                   starts, run, obs, popup>>

GenerateCSV ==
    /\ pure.fn = "generateCSV"
    /\ ~pure.done
    /\ pure' = Returned(generateCSV(pure.arg.list, pure.arg.includeItems))
    /\ UNCHANGED <<site, clicks, curPage, isExporting, orders, processedOrders, running,
                   starts, run, obs, popup>>

ExtractItemsFromOrderContainer ==
    /\ pure.fn = "extractItemsFromOrderContainer"
    /\ ~pure.done
    /\ pure' = Returned(extractItemsFromOrderContainer(pure.arg))
    /\ UNCHANGED <<site, clicks, curPage, isExporting, orders, processedOrders, running,
                   starts, run, obs, popup>>

ExtractItemsFromNextData ==
    /\ pure.fn = "extractItemsFromNextData"
    /\ ~pure.done
    /\ pure' = Returned(extractItemsFromNextData(pure.arg))
    /\ UNCHANGED <<site, clicks, curPage, isExporting, orders, processedOrders, running,
                   starts, run, obs, popup>>

ExtractItemsFromDOM ==
    /\ pure.fn = "extractItemsFromDOM"
    /\ ~pure.done
    /\ pure' = Returned(extractItemsFromDOM(pure.arg))
    /\ UNCHANGED <<site, clicks, curPage, isExporting, orders, processedOrders, running,
                   starts, run, obs, popup>>

ExtractItemsFromReceipt ==
    /\ pure.fn = "extractItemsFromReceipt"
    /\ ~pure.done
    /\ pure' = Returned(extractItemsFromReceipt(pure.arg))
    /\ UNCHANGED <<site, clicks, curPage, isExporting, orders, processedOrders, running,
                   starts, run, obs, popup>>

ParseOrderFromJSONData ==
    /\ pure.fn = "parseOrderFromJSONData"
    /\ ~pure.done
    /\ pure' = Returned(parseOrderFromJSONData(pure.arg))
    /\ UNCHANGED <<site, clicks, curPage, isExporting, orders, processedOrders, running,
                   starts, run, obs, popup>>

ParseOrderDetailPage ==
    /\ pure.fn = "parseOrderDetailPage"
    /\ ~pure.done
    /\ pure' = Returned(parseOrderDetailPage(pure.arg))
    /\ UNCHANGED <<site, clicks, curPage, isExporting, orders, processedOrders, running,
                   starts, run, obs, popup>>

PureNext ==
    \/ EscapeCSV
    \/ GenerateCSV
    \/ ExtractItemsFromOrderContainer
    \/ ExtractItemsFromNextData
    \/ ExtractItemsFromDOM
    \/ ExtractItemsFromReceipt
    \/ ParseOrderFromJSONData
    \/ ParseOrderDetailPage

PureSpec == PureInit /\ [][PureNext]_vars

\* ---------------------------------------------------------------- the popup
\* The popup's handlers, with the content script seen from outside: it
\* answers a STOP_EXPORT at once and a START_EXPORT when its run has ended.
PopupInit ==
    /\ clicks = 1
    /\ site = [n |-> 0, perPage |-> MaxPerPage, overlap |-> FALSE,
               layout |-> "containers", nested |-> FALSE, shift |-> 0, endless |-> FALSE]
    /\ curPage = 1
    /\ isExporting = FALSE
    /\ orders = <<>>
    /\ processedOrders = 0
    /\ running = 0
    /\ starts = 0
    /\ run = [r \in Runs |-> NoRun]
    /\ obs = [r \in Runs |-> NoObs]
    /\ pure = NoCall
    /\ popup = NoPopup

\* finally { this.isExporting = false; this.showIdleState() }
Idle(p) == [p EXCEPT !.isExporting = FALSE, !.button = "export"]

\* a click on the Export button, which is shown: startExport up to its
\* first await; `if (this.isExporting) return`
ClickExport(c) ==
    /\ popup.button = "export"
    /\ popup.startExport[c] = "idle"
    /\ \A b \in 1..(c - 1) : popup.startExport[b] # "idle"
    /\ popup' = IF popup.isExporting
                THEN [popup EXCEPT !.startExport[c] = "done"]
                ELSE [popup EXCEPT !.isExporting = TRUE, !.button = "stop",
                                   !.startExport[c] = "query"]
    /\ UNCHANGED <<site, clicks, curPage, isExporting, orders, processedOrders, running,
                   starts, run, obs, pure>>

\* chrome.tabs.query returned: on the orders page START_EXPORT is sent,
\* otherwise the handler throws and ends in its finally
SendStart(c, onOrdersPage) ==
    /\ popup.startExport[c] = "query"
    /\ popup' = IF onOrdersPage
                THEN [popup EXCEPT !.startExport[c] = "sent"]
                ELSE [Idle(popup) EXCEPT !.startExport[c] = "done"]
    /\ UNCHANGED <<site, clicks, curPage, isExporting, orders, processedOrders, running,
                   starts, run, obs, pure>>

\* the response to START_EXPORT: showSuccess or showError, then finally
StartResponse(c) ==
    /\ popup.startExport[c] = "sent"
    /\ popup' = [Idle(popup) EXCEPT !.startExport[c] = "done"]
    /\ UNCHANGED <<site, clicks, curPage, isExporting, orders, processedOrders, running,
                   starts, run, obs, pure>>

\* a click on the Stop button, which is shown: stopExport up to its await
ClickStop(c) ==
    /\ popup.button = "stop"
    /\ popup.stopExport[c] = "idle"
    /\ \A b \in 1..(c - 1) : popup.stopExport[b] # "idle"
    /\ popup' = [popup EXCEPT !.stopExport[c] = "query"]
    /\ UNCHANGED <<site, clicks, curPage, isExporting, orders, processedOrders, running,
                   starts, run, obs, pure>>

\* chrome.tabs.query returned: STOP_EXPORT is sent
SendStop(c) ==
    /\ popup.stopExport[c] = "query"
    /\ popup' = [popup EXCEPT !.stopExport[c] = "sent"]
    /\ UNCHANGED <<site, clicks, curPage, isExporting, orders, processedOrders, running,
                   starts, run, obs, pure>>

\* the response to STOP_EXPORT: this.isExporting = false; showIdleState()
StopResponse(c) ==
    /\ popup.stopExport[c] = "sent"
    /\ popup' = [Idle(popup) EXCEPT !.stopExport[c] = "done"]
    /\ UNCHANGED <<site, clicks, curPage, isExporting, orders, processedOrders, running,
                   starts, run, obs, pure>>

PopupNext ==
    \/ \E c \in 1..MaxExports : ClickExport(c)
    \/ \E c \in 1..MaxExports, onOrdersPage \in BOOLEAN : SendStart(c, onOrdersPage)
    \/ \E c \in 1..MaxExports : StartResponse(c)
    \/ \E c \in 1..MaxStops : ClickStop(c)
    \/ \E c \in 1..MaxStops : SendStop(c)
    \/ \E c \in 1..MaxStops : StopResponse(c)

PopupSpec == PopupInit /\ [][PopupNext]_vars

\* ------------------------------------------------------------- the claims
InFlight == {r \in Runs : run[r].pc \in {"fetchOrderDetails", "fetchDetailedItems"}}

UniqueOrderIds(s) ==
    \A a, b \in 1..Len(s) : a # b => s[a].orderId # s[b].orderId

\* C1: within one export run no two records of this.orders have the same
\* orderId, also when the run pages and two successive pages show an order.
C1_UniqueOrderIds == clicks = 1 => UniqueOrderIds(orders)

\* C2: whatever START_EXPORT and STOP_EXPORT messages arrive, at most one
\* network fetch is in flight and at most one run writes this.orders.
C2_OneFetchOneWriter ==
    /\ Cardinality(InFlight) <= 1
    /\ \A a, b \in 1..Len(orders) : orders[a].run = orders[b].run

\* C3: once a run has read isExporting as false at a loop check, it emits no
\* further EXPORT_PROGRESS event.
C3_SilentAfterStopSeen ==
    [][\A r \in Runs : obs[r].stopSeen => obs'[r].progress = obs[r].progress]_vars

\* C4: a run that STOP_EXPORT stopped before its last order (it left a loop
\* at a stop check with work remaining) answers with no success result and
\* triggers no download.
C4_StoppedRunIsSilent ==
    \A r \in Runs :
        clicks = 1 /\ obs[r].stopped /\ obs[r].stopSeen =>
            obs[r].response # "success" /\ ~obs[r].download

\* the calls of fetchOrderDetails, fetchDetailedItems and goToNextPage that
\* run r has made
Calls(o, r) ==
    <<o[r].fetchOrderDetails, o[r].fetchDetailedItems, o[r].navigations>>

\* C5: in a behaviour with one START_EXPORT, while the flag is cleared and
\* the run has not ended the run begins no call of fetchOrderDetails or
\* fetchDetailedItems and no goToNextPage; the call in flight completes.
C5_NoNewWorkAfterStop ==
    [][\A r \in Runs :
          clicks = 1 /\ Active(r) /\ ~isExporting => Calls(obs', r) = Calls(obs, r)]_vars

C5_Witness ==
    \E r \in Runs :
        /\ clicks = 1 /\ obs[r].stopped /\ obs[r].stopSeen
        /\ run[r].pc = "done"
        /\ obs[r].fetchOrderDetails + obs[r].fetchDetailedItems > 0

\* the order the run is filtering
Current(r) == run[r].pageOrders[run[r].i + 1]

Filtering(r) == running = r /\ run[r].pc = "filter"

\* the order's date parses and lies before the cutoff of a numeric dateRange
BeforeCutoff(r, order) ==
    /\ run[r].options.dateRange = DateRangeDays
    /\ order.orderDate \in {"d10", "d40"}
    /\ ParseDate(order.orderDate) > DateRangeDays

\* C6: with a numeric dateRange, the step that processes an order dated
\* before the cutoff appends nothing to this.orders and sets the
\* reached-cutoff flag, and from then on the run never calls goToNextPage
\* (a step that throws ends the run and appends nothing).
C6_CutoffStopsPaging ==
    [][\A r \in Runs :
          /\ Filtering(r) /\ BeforeCutoff(r, Current(r)) =>
                orders' = orders /\ (run'[r].reachedCutoff \/ obs'[r].threw)
          /\ run[r].reachedCutoff =>
                /\ run'[r].reachedCutoff \/ obs'[r].threw
                /\ obs'[r].navigations = obs[r].navigations]_vars

C6_Witness ==
    \E r \in Runs :
        /\ run[r].pc = "done" /\ run[r].reachedCutoff /\ ~obs[r].stopped
        /\ run[r].options.allPages /\ NextEnabled(site, curPage)
        /\ \E k \in 1..Len(run[r].pageOrders) :
              /\ BeforeCutoff(r, run[r].pageOrders[k])
              /\ ~HasId(orders, run[r].pageOrders[k].orderId)

\* the order passes the date filter and the order type filter of run r
Passes(r, order) ==
    /\ ~BeforeCutoff(r, order)
    /\ run[r].options.orderTypeFilter = "online" => order.orderType # "store"
    /\ run[r].options.orderTypeFilter = "store" => order.orderType = "store"

\* C7: the reached-cutoff flag does not end the page: with the flag set and
\* no stop, the loop takes up the next order of the page, and the order is
\* appended to this.orders exactly if it passes the date and type filters
\* (in the steps that do not throw).
C7_CutoffKeepsPage ==
    [][\A r \in Runs :
          /\ ( /\ running = r /\ run[r].pc = "process" /\ run[r].reachedCutoff
               /\ run[r].i < Len(run[r].pageOrders) /\ isExporting
               /\ ~obs'[r].threw )
             => run'[r].pc \in {"filter", "fetchDetailedItems"}
          /\ Filtering(r) /\ run[r].reachedCutoff /\ ~obs'[r].threw =>
                /\ run'[r].i = run[r].i + 1
                /\ orders' = IF Passes(r, Current(r))
                             THEN Append(orders, Current(r)) ELSE orders]_vars

C7_Witness ==
    \E r \in Runs :
        /\ clicks = 1 /\ run[r].reachedCutoff /\ run[r].pc = "process"
        /\ \E j, k \in 1..run[r].i :
              /\ j < k
              /\ BeforeCutoff(r, run[r].pageOrders[j])
              /\ orders # <<>> /\ orders[Len(orders)] = run[r].pageOrders[k]

\* C8: in every state of a run, with orderTypeFilter 'online' this.orders
\* holds no 'store' order and with 'store' it holds only 'store' orders.
C8_TypeFilterHolds ==
    \A r \in Runs :
        Active(r) =>
            \A k \in 1..Len(orders) :
                /\ run[r].options.orderTypeFilter = "online" => orders[k].orderType # "store"
                /\ run[r].options.orderTypeFilter = "store" => orders[k].orderType = "store"

\* C9: the run calls goToNextPage only when allPages is set, the cutoff flag
\* is not set, isExporting is true and the Next page button is enabled, and
\* the document then shows the next page; in every other case the check
\* after the page ends the loop (unless the step throws).
C9_AdvanceOnlyWhen ==
    [][\A r \in Runs :
          /\ obs'[r].navigations # obs[r].navigations =>
                /\ run[r].options.allPages /\ ~run[r].reachedCutoff
                /\ isExporting /\ NextEnabled(site, curPage)
                /\ curPage' = curPage + 1
          /\ ( /\ running = r /\ run[r].pc = "pageEnd"
               /\ ~( /\ run[r].options.allPages /\ ~run[r].reachedCutoff
                     /\ isExporting /\ NextEnabled(site, curPage) )
               /\ ~obs'[r].threw )
             => run'[r].pc = "finish"
          /\ run[r].pc = "finish" => run'[r].pc \in {"finish", "done"}]_vars

C9_Witness ==
    \E r \in Runs :
        /\ obs[r].navigations > 0 /\ run[r].pc = "done" /\ ~obs[r].stopped
        /\ run[r].pageNum = obs[r].navigations + 1

Started(r) == run[r].pc # "idle"

\* C10: a run started with fetchItemPrices = false issues no detail fetch at
\* all, neither fetchOrderDetails nor fetchDetailedItems, and the orders it
\* exports have items without prices.
C10_NoDetailFetch ==
    \A r \in Runs :
        Started(r) /\ ~run[r].options.fetchItemPrices =>
            /\ obs[r].fetchOrderDetails = 0 /\ obs[r].fetchDetailedItems = 0
            /\ \A k \in 1..Len(orders) : orders[k].run = r => ~orders[k].priced

\* C10 as amended: such a run never calls fetchDetailedItems; it calls
\* fetchOrderDetails only in the fallback loop, whose page gave the
\* collector no order; orders taken from the list page keep empty prices.
C10_NoPriceFetch ==
    \A r \in Runs :
        Started(r) /\ ~run[r].options.fetchItemPrices =>
            /\ obs[r].fetchDetailedItems = 0
            /\ run[r].pc \in {"fallback", "fetchOrderDetails", "fallbackDelay"} =>
                  \A k \in 1..Len(run[r].pageOrders) : run[r].pageOrders[k].src = "detail"
            /\ obs[r].fetchOrderDetails > 0 => site.layout = "links"
            /\ \A k \in 1..Len(orders) :
                  orders[k].run = r /\ orders[k].src = "list" => ~orders[k].priced

C10_Witness ==
    \E r \in Runs :
        /\ run[r].pc = "done" /\ ~run[r].options.fetchItemPrices
        /\ run[r].options.includeItems
        /\ obs[r].fetchOrderDetails > 0 /\ orders # <<>>

\* C11: in a run started with fetchItemPrices = true, every order the loop
\* takes up gets a call of fetchDetailedItems, with includeItems set or not.
C11_EveryOrderFetched ==
    [][\A r \in Runs :
          ( /\ running = r /\ run[r].pc = "process"
            /\ run[r].options.fetchItemPrices
            /\ run'[r].pc \in {"filter", "fetchDetailedItems"} )
          => /\ run'[r].pc = "fetchDetailedItems"
             /\ obs'[r].fetchDetailedItems = obs[r].fetchDetailedItems + 1]_vars

\* C12: when an exception escapes the loop of exportOrders, the run answers
\* {success: false, error} without csv, orderCount or itemCount, no download
\* is triggered, isExporting is false after the step, and the answer stays.
C12_ExceptionFails ==
    [][\A r \in Runs :
          /\ ( ~obs[r].threw /\ obs'[r].threw ) =>
                /\ obs'[r].response = "failure"
                /\ ~obs'[r].csv /\ obs'[r].orderCount = 0
                /\ ~obs'[r].download
                /\ ~isExporting'
                /\ run'[r].pc = "done"
          /\ obs[r].threw => obs'[r] = obs[r] /\ run'[r].pc = "done"]_vars

C12_Witness ==
    \E r \in Runs :
        /\ obs[r].threw /\ run[r].pc = "done"
        /\ orders # <<>>
        /\ \A k \in 1..Len(orders) : orders[k].run = r

\* the record the fallback loop pushed last
LastFetched(rn) == rn.pageOrders[Len(rn.pageOrders)]

\* C13: when the fetch or the parse of one order's detail fails,
\* fetchOrderDetails returns a record with status 'Error fetching', no items
\* and error set; the record is kept for the page, and the run goes on with
\* the next order link instead of ending in failure.
C13_FailedFetchKept ==
    [][\A r \in Runs :
          /\ ( /\ run[r].pc = "fetchOrderDetails"
               /\ run'[r].pc = "fallbackDelay" /\ run'[r].stage = "fail" )
             => /\ Len(run'[r].pageOrders) = Len(run[r].pageOrders) + 1
                /\ LastFetched(run'[r]).orderId = run[r].orderIds[run[r].k].orderId
                /\ LastFetched(run'[r]).status = "Error fetching"
                /\ LastFetched(run'[r]).items = 0
                /\ LastFetched(run'[r]).error
                /\ obs'[r].response = "none"
          /\ ( /\ run[r].pc = "fallbackDelay" /\ run[r].stage = "fail"
               /\ run'[r] # run[r] )
             => /\ run'[r].pc = "fallback"
                /\ run'[r].k = run[r].k + 1
                /\ run'[r].pageOrders = run[r].pageOrders
          /\ ( /\ running = r /\ run[r].pc = "fallback"
               /\ run[r].k <= Len(run[r].orderIds) /\ isExporting
               /\ ~obs'[r].threw )
             => /\ run'[r].pc = "fetchOrderDetails"
                /\ obs'[r].fetchOrderDetails = obs[r].fetchOrderDetails + 1]_vars

C13_Witness ==
    \E r \in Runs :
        /\ run[r].pc = "done" /\ obs[r].response = "success"
        /\ \E j, k \in 1..Len(orders) :
              /\ j < k
              /\ orders[j].error /\ orders[j].run = r
              /\ ~orders[k].error /\ orders[k].src = "detail" /\ orders[k].run = r

\* C14: when fetchDetailedItems returns null for an order, the order's
\* items, orderDate, subtotal, tax, total and fees stay exactly as the
\* collector produced them, and so they reach the filters.
C14_NullKeepsOrder ==
    [][\A r \in Runs :
          /\ ( /\ run[r].pc = "fetchDetailedItems"
               /\ run'[r].pc = "detailDelay" /\ ~run'[r].fetchResult.ok )
             => run'[r].pageOrders = run[r].pageOrders
          /\ ( run[r].pc = "detailDelay" /\ ~obs'[r].threw )
             => run'[r].pageOrders = run[r].pageOrders]_vars

C14_Witness ==
    \E r \in Runs :
        /\ run[r].pc = "detailDelay" /\ ~run[r].fetchResult.ok
        /\ LET order == run[r].pageOrders[run[r].i + 1]
           IN  /\ order.items > 0 /\ order.total # ""
               /\ order.orderDate # "Unknown"
               /\ order = ListOrder(site, order.orderId, r)

\* C15: every EXPORT_PROGRESS event that carries a percent has
\* 0 <= percent <= 100, already in a behaviour with one START_EXPORT.
C15_PercentInRange ==
    \A r \in Runs :
        clicks = 1 =>
            /\ 0 <= obs[r].percent.num
            /\ obs[r].percent.num <= 100 * obs[r].percent.den

\* the percent lies in 0..100
InRange(percent) == 0 <= percent.num /\ percent.num <= 100 * percent.den

\* C16: within one run the percent values of successive EXPORT_PROGRESS
\* events never decrease, also from the last order of a page to the first
\* order of the next page (stated for the events whose percent is in range,
\* in a behaviour with one START_EXPORT).
C16_PercentMonotonic ==
    [][\A r \in Runs :
          clicks = 1 /\ InRange(obs[r].percent) /\ InRange(obs'[r].percent) =>
              obs[r].percent.num * obs'[r].percent.den
                  <= obs'[r].percent.num * obs[r].percent.den]_vars

\* the rows a list of orders is due, in order: the order's place in the
\* list and the item's place in the order (0: the order has no item)
RECURSIVE RowOwners(_, _)
RowOwners(list, k) ==
    IF k > Len(list) THEN <<>>
    ELSE (IF list[k].items = <<>> THEN <<[order |-> k, item |-> 0]>>
          ELSE [i \in 1..Len(list[k].items) |-> [order |-> k, item |-> i]])
             \o RowOwners(list, k + 1)

\* a CSV reader: the records of a text and the unquoted fields of each
RECURSIVE CsvParse(_, _, _, _, _)
CsvParse(text, inQuotes, field, record, records) ==
    IF text = <<>> THEN Append(records, Append(record, field))
    ELSE LET c == Head(text)
             rest == Tail(text)
         IN  IF inQuotes
             THEN IF c # "\"" THEN CsvParse(rest, TRUE, Append(field, c), record, records)
                  ELSE IF rest # <<>> /\ Head(rest) = "\""
                       THEN CsvParse(Tail(rest), TRUE, Append(field, c), record, records)
                       ELSE CsvParse(rest, FALSE, field, record, records)
             ELSE IF c = "\"" /\ field = <<>>
                  THEN CsvParse(rest, TRUE, field, record, records)
                  ELSE IF c = ","
                       THEN CsvParse(rest, FALSE, <<>>, Append(record, field), records)
                       ELSE IF c = "\n"
                            THEN CsvParse(rest, FALSE, <<>>, <<>>,
                                          Append(records, Append(record, field)))
                            ELSE CsvParse(rest, FALSE, Append(field, c), record, records)

Records(text) == CsvParse(text, FALSE, <<>>, <<>>, <<>>)

Called(fn) == pure.fn = fn /\ pure.done

\* C17: for every accumulated order list, generateCSV(true) emits the
\* header row and then, in accumulator order, one row per item of each
\* order, and for an order without items one row whose item name is
\* 'No items found' and whose price and quantity are empty.
C17_DetailedRowCount ==
    Called("generateCSV") /\ pure.arg.includeItems =>
        LET list == pure.arg.list
            rows == pure.ret.rows
            owners == RowOwners(list, 1)
        IN  /\ Len(rows) = 1 + Len(owners)
            /\ rows[1] = join(DetailedHeader, ",")
            /\ pure.ret.text = join(rows, "\n")
            /\ \A k \in 1..Len(owners) :
                  LET order == list[owners[k].order]
                      fields == Records(rows[k + 1])[1]
                  IN  /\ fields[1] = order.orderNumber
                      /\ fields[4] = IF owners[k].item = 0 THEN <<"No items found">>
                                     ELSE order.items[owners[k].item].name
                      /\ owners[k].item = 0 => fields[5] = <<>> /\ fields[6] = <<>>

C17_Witness ==
    /\ Called("generateCSV") /\ pure.arg.includeItems
    /\ Len(pure.arg.list) = MaxCsvOrders
    /\ pure.arg.list[1].items = <<>>
    /\ Len(pure.arg.list[Len(pure.arg.list)].items) > 1
    /\ Len(pure.ret.rows) > Len(pure.arg.list) + 1

\* C18: every row generateCSV writes is one CSV record that has, after CSV
\* unquoting, as many fields as the header: 15 in the detailed layout and
\* 13 in the summary layout.
C18_FieldCount ==
    Called("generateCSV") =>
        \A k \in 1..Len(pure.ret.rows) :
            LET records == Records(pure.ret.rows[k])
            IN  /\ Len(records) = 1
                /\ Len(records[1]) = IF pure.arg.includeItems THEN 15 ELSE 13

\* strip the outer quotes of an escaped field and halve the doubled quotes
RECURSIVE Halve(_)
Halve(str) ==
    IF str = <<>> THEN <<>>
    ELSE IF Head(str) = "\"" /\ Tail(str) # <<>> /\ Head(Tail(str)) = "\""
         THEN <<"\"">> \o Halve(Tail(Tail(str)))
         ELSE <<Head(str)>> \o Halve(Tail(str))

Unescape(str) ==
    IF Len(str) >= 2 /\ str[1] = "\"" /\ str[Len(str)] = "\""
    THEN Halve(SubSeq(str, 2, Len(str) - 1))
    ELSE str

NumQuotes(str) == Cardinality({k \in 1..Len(str) : str[k] = "\""})

\* C19: escapeCSV wraps a string in double quotes, with the quotes inside
\* doubled, exactly when it contains a comma, a double quote or a newline,
\* and returns every other string unchanged; un-escaping the result gives
\* back the string.
C19_EscapeRoundTrip ==
    Called("escapeCSV") /\ pure.arg # Undefined =>
        LET value == pure.arg
            escaped == pure.ret
            special == \E k \in 1..Len(value) : value[k] \in {",", "\"", "\n"}
        IN  /\ special =>
                  /\ Len(escaped) = Len(value) + NumQuotes(value) + 2
                  /\ escaped[1] = "\"" /\ escaped[Len(escaped)] = "\""
                  /\ NumQuotes(escaped) = 2 * NumQuotes(value) + 2
            /\ ~special => escaped = value
            /\ Unescape(escaped) = value

C19_Witness ==
    /\ Called("escapeCSV") /\ pure.arg # Undefined
    /\ Includes(pure.arg, "\"") /\ Includes(pure.arg, ",")
    /\ pure.ret # pure.arg

\* C20: no parsing path gives an order two items of the same name, also
\* when the source repeats a line item.
C20_UniqueItemNames ==
    ( /\ pure.done
      /\ pure.fn \in {"extractItemsFromOrderContainer", "extractItemsFromNextData",
                      "extractItemsFromDOM", "extractItemsFromReceipt",
                      "parseOrderFromJSONData"} )
    => \A a, b \in 1..Len(pure.ret) : a # b => pure.ret[a].name # pure.ret[b].name

\* C21: every item emitted by an item-extraction strategy (structured data,
\* DOM links, image alt text, loose receipt text) has a name for which
\* isValidProductName returns true.
C21_ValidItemNames ==
    ( /\ pure.done
      /\ pure.fn \in {"extractItemsFromOrderContainer", "extractItemsFromNextData",
                      "extractItemsFromDOM", "extractItemsFromReceipt",
                      "parseOrderFromJSONData"} )
    => \A k \in 1..Len(pure.ret) : isValidProductName(pure.ret[k].name)

\* C22: every item an extraction strategy emits has a quantity that is a
\* positive integer, whether read from 'Qty N' text, from the
\* ', quantity N' alt-text suffix or from a JSON quantity field.
C22_PositiveQuantity ==
    ( /\ pure.done
      /\ pure.fn \in {"extractItemsFromOrderContainer", "extractItemsFromNextData",
                      "extractItemsFromDOM", "extractItemsFromReceipt",
                      "parseOrderFromJSONData"} )
    => \A k \in 1..Len(pure.ret) : pure.ret[k].quantity \in Nat \ {0}

ApiStages == {"api1", "api2", "api3"}

\* C24: fetchOrderDetails requests the primary API endpoint first, each
\* alternative endpoint only directly after the endpoint before it, and the
\* HTML page only after an API endpoint, when none gave usable data: all
\* three failed, or one answered without order data; a usable API response
\* ends the sequence with the order's record, and the HTML response ends it
\* in any case.
C24_SourceOrder ==
    [][\A r \in Runs :
          LET from == run[r].stage
              to == run'[r].stage
          IN  /\ to = "api1" /\ from # to =>
                    /\ run[r].pc = "fallback" /\ run'[r].pc = "fetchOrderDetails"
                    /\ run'[r].apiCalls = 1
              /\ to = "api2" /\ from # to => from = "api1" /\ run'[r].apiCalls = 2
              /\ to = "api3" /\ from # to => from = "api2" /\ run'[r].apiCalls = 3
              /\ to = "html" /\ from # to =>
                    /\ from \in ApiStages
                    /\ run'[r].apiCalls = run[r].apiCalls
                    /\ run'[r].pageOrders = run[r].pageOrders
                    /\ \/ run'[r].apiData = "unusable"
                       \/ run'[r].apiData = "null" /\ run[r].apiCalls = 3
              /\ from \in ApiStages /\ to \notin ApiStages \cup {"html"} =>
                    /\ run'[r].pc = "fallbackDelay"
                    /\ Len(run'[r].pageOrders) = Len(run[r].pageOrders) + 1
                    /\ ~run'[r].pageOrders[Len(run'[r].pageOrders)].error
              /\ from = "html" /\ from # to =>
                    /\ run'[r].pc = "fallbackDelay"
                    /\ Len(run'[r].pageOrders) = Len(run[r].pageOrders) + 1]_vars

\* the HTML page is requested after all three API endpoints failed, for
\* the second order link of a page
C24_Witness ==
    \E r \in Runs :
        /\ run[r].pc = "fetchOrderDetails" /\ run[r].stage = "html"
        /\ run[r].apiCalls = 3 /\ run[r].apiData = "null"
        /\ Len(run[r].pageOrders) = 1 /\ ~run[r].pageOrders[1].error

\* C25: a run issues a per-order fetch (fetchOrderDetails, fetchDetailedItems)
\* only when each of its earlier fetches has been followed by a completed
\* delay; the return of a fetch leads to the delay and nothing else; and a
\* collection pass starts only when every navigation of the run has been
\* followed by the page-update wait and the delay.
C25_DelayAfterFetch ==
    [][\A r \in Runs :
          /\ obs'[r].fetchOrderDetails + obs'[r].fetchDetailedItems
                  # obs[r].fetchOrderDetails + obs[r].fetchDetailedItems
                => obs[r].delays = obs[r].fetchOrderDetails + obs[r].fetchDetailedItems
          /\ run[r].pc = "fetchOrderDetails" /\ run'[r].pc # run[r].pc
                => run'[r].pc = "fallbackDelay"
          /\ run[r].pc = "fetchDetailedItems" /\ run'[r].pc # run[r].pc
                => run'[r].pc = "detailDelay"
          /\ run[r].pc = "waitForPageUpdate" /\ run'[r].pc # run[r].pc
                => run'[r].pc = "pageDelay"
          /\ run[r].pc = "while" /\ run'[r].pc \in {"fallback", "process"}
                => obs[r].waits = 2 * obs[r].navigations]_vars

\* a third fetch of a run on its second page
C25_Witness ==
    \E r \in Runs :
        /\ run[r].pc = "fetchDetailedItems"
        /\ obs[r].fetchOrderDetails + obs[r].fetchDetailedItems = 3
        /\ obs[r].delays = 2
        /\ obs[r].navigations = 1 /\ obs[r].waits = 2

\* the embedded JSON of the page holds an order-shaped object
HasOrderJson(page) ==
    \/ page.nextData = "order"
    \/ page.inlineJson

\* C26: parseOrderDetailPage builds the order from structured data only
\* when the embedded JSON yields an order-shaped object, and by the DOM path
\* whenever the embedded JSON is absent, unparseable or holds no
\* order-shaped object.
C26_JsonOnlyForOrderData ==
    Called("parseOrderDetailPage") =>
        /\ pure.ret.builtBy = "parseOrderFromJSONData" => HasOrderJson(pure.arg)
        /\ ~HasOrderJson(pure.arg) =>
              /\ pure.ret.builtBy = "DOM"
              /\ pure.ret.items = extractItemsFromDOM(pure.arg.dom)

\* C27: a run that was active when STOP_EXPORT arrived begins no further
\* call of fetchOrderDetails or fetchDetailedItems and no goToNextPage,
\* also when a START_EXPORT arrives before its next flag check; and a run
\* that ends does not clear the flag under another run that is active.
C27_StopNeverLost ==
    [][\A r \in Runs :
          /\ Active(r) /\ obs[r].stopped => Calls(obs', r) = Calls(obs, r)
          /\ run[r].pc # "done" /\ run'[r].pc = "done" =>
                \A q \in Runs \ {r} : Active(q) /\ isExporting => isExporting']_vars

\* C28: the record fetchOrderDetails returns for an order link marked as a
\* store purchase (isStore = true) has orderType 'store', whether it was
\* built from API data, from the HTML page or by the catch.
C28_StoreLinkStoreType ==
    \A r \in Runs :
        run[r].pc \in {"fallback", "fetchOrderDetails", "fallbackDelay"} =>
            \A j \in 1..Len(run[r].pageOrders) :
                run[r].orderIds[j].isStore => run[r].pageOrders[j].orderType = "store"

\* the run has ended: finally has cleared the flag and the listener has
\* answered the caller
Ended(r) == run[r].pc = "done" /\ obs[r].response # "none" /\ ~isExporting

\* the run pages without limit: every page, allPages, no date cutoff
Unlimited(r) ==
    /\ site.endless
    /\ Started(r)
    /\ run[r].options.allPages /\ run[r].options.dateRange = All

\* C29: when every fetch and delay completes, a run that was active when
\* STOP_EXPORT arrived, with no START_EXPORT to come, eventually ends with
\* isExporting = false and a response sent; every run on a site whose Next
\* page button is disabled on the last page ends; and on a site whose
\* button stays enabled a run with allPages and dateRange 'all' leaves its
\* loop only when it was stopped or a step threw.
C29_Termination ==
    /\ \A r \in Runs : (obs[r].stopped /\ starts = clicks) ~> Ended(r)
    /\ \A r \in Runs : (Active(r) /\ ~site.endless) ~> Ended(r)
    /\ [](\A r \in Runs :
             Unlimited(r) /\ run[r].pc \in {"finish", "done"} =>
                 obs[r].stopped \/ obs[r].threw)

\* a run on its MaxPages-th page of a site whose button stays enabled, and
\* a run that ended there after STOP_EXPORT
C29_Witness ==
    \E r \in Runs :
        /\ Unlimited(r)
        /\ run[r].pageNum = MaxPages
        /\ obs[r].stopped /\ Ended(r)

\* the START_EXPORT requests the popup has sent and that are not answered
Outstanding == {c \in 1..MaxExports : popup.startExport[c] = "sent"}

\* C30: the popup never has two START_EXPORT requests outstanding, and its
\* isExporting flag is true exactly while a call of startExport is under
\* way, from the click to the response.
C30_OneOutstandingStart ==
    /\ Cardinality(Outstanding) <= 1
    /\ popup.isExporting <=>
          \E c \in 1..MaxExports : popup.startExport[c] \in {"query", "sent"}

====
